---- MODULE Spec2Model ----
(***************************************************************************)
(* Model of binaries/runtime/src/operator/python.rs: one operator session  *)
(* (`run`) hosting a Python `Operator`, its upstream channel               *)
(* (flume::Receiver<IncomingEvent>), its outgoing channel                  *)
(* (tokio mpsc Sender<OperatorEvent>, bounded), the init_done oneshot and  *)
(* the interpreter's global lock (GIL), which sibling operator threads of  *)
(* the same process contend for.                                           *)
(***************************************************************************)
EXTENDS Integers, Sequences, FiniteSets, TLC

\* ---------------------------------------------------------------- bounds
MaxEvents == 3          \* events the host feeds on the upstream channel
MaxCalls  == 2          \* calls of the output callback per session
OutCap    == 1          \* capacity of the bounded outgoing channel

\* --------------------------------------------------------- program values
\* DoraStatus discriminants (dora_operator_api_types::DoraStatus)
Continue == 0
Stop     == 1
StopAll  == 2

VARIABLES
    pc,            \* position of the session thread inside run
    srcOutcome,    \* how source resolution ended
    initOutcome,   \* how init_operator ended
    operator,      \* the Py<PyAny> operator instance
    initSignal,    \* init_done oneshot: unsent / sent / undelivered
    initRxDropped, \* the host dropped the oneshot receiver
    incoming,      \* upstream channel queue (event ids)
    fed,           \* number of events the host has fed
    inClosed,      \* all upstream senders dropped
    event,         \* the event taken by recv in this cycle (0: none)
    dispatched,    \* ids of the events on_event was called with, in order
    outcomes,      \* how each on_event call ended, in order
    sent,          \* every message enqueued on the outgoing channel, in order
    drained,       \* how many of them the host has received
    outClosed,     \* the host closed / dropped the outgoing receiver
    pending,       \* the Output a callback call is sending (<<>>: none)
    calls,         \* finished calls of the output callback, in order
    reason,        \* StopReason the loop broke with
    result,        \* what catch_unwind(closure) evaluates to
    terminal,      \* messages handed to the terminal blocking_send
    runResult,     \* what run returned: none / Ok / Err
    gil            \* holder of the interpreter lock: free / session / sibling

vars == <<pc, srcOutcome, initOutcome, operator, initSignal,
          initRxDropped, incoming, fed, inClosed, event, dispatched, outcomes,
          sent, drained, outClosed, pending, calls, reason, result, terminal,
          runResult, gil>>

\* ------------------------------------------------------------- messages
\* OperatorEvent
Output(id, metadata, data) ==
    [type |-> "Output", output_id |-> id, metadata |-> metadata, data |-> data,
     reason |-> "", cause |-> ""]
Finished(r) ==
    [type |-> "Finished", output_id |-> "", metadata |-> "", data |-> <<>>,
     reason |-> r, cause |-> ""]
Error(c) ==
    [type |-> "Error", output_id |-> "", metadata |-> "", data |-> <<>>,
     reason |-> "", cause |-> c]
Panic ==
    [type |-> "Panic", output_id |-> "", metadata |-> "", data |-> <<>>,
     reason |-> "", cause |-> ""]

IsTerminal(m) == m.type \in {"Finished", "Error", "Panic"}

\* the messages still queued in the outgoing channel
chan == SubSeq(sent, drained + 1, Len(sent))

Last(s) == s[Len(s)]

\* ------------------------------------------------------- guest-side inputs
\* What on_event may hand back: an object with or without a `value`
\* attribute; the value is a Python int that fits i32 ("i32"), a Python int
\* that does not ("bigint", v is then not looked at), or something else.
RetObj(hasValue, valueKind, v) ==
    [hasValue |-> hasValue, valueKind |-> valueKind, value |-> v]
NoRet == RetObj(FALSE, "none", 0)
ReturnValues ==
    {RetObj(TRUE, "i32", v) : v \in {-1, Continue, Stop, StopAll, 3}}
    \cup {NoRet, RetObj(TRUE, "bigint", 0), RetObj(TRUE, "str", 0)}

\* how one on_event call ended
Returned(ret) == [kind |-> "return", ret |-> ret]
Raised   == [kind |-> "raise", ret |-> NoRet]
Panicked == [kind |-> "panic", ret |-> NoRet]

\* arguments of a call of the output callback: (output, data, metadata)
CallArgs ==
    { [output |-> "a", data |-> <<>>,        metadata |-> "None"],
      [output |-> "b", data |-> <<7, 0>>,    metadata |-> "dict"],
      [output |-> "a", data |-> <<0, 7>>,    metadata |-> "bad_dict"] }

\* fault variant: the copy loses the last byte
ToOwned_Truncated(bytes) == [i \in 1..(Len(bytes) - 1) |-> bytes[i]]

\* PyBytes::as_bytes + <[u8]>::to_owned: a fresh Vec<u8> with the same bytes
ToOwned(bytes) == [i \in 1..Len(bytes) |-> bytes[i]]

\* dora_operator_api_python::pydict_to_metadata: None gives the default
\* metadata, a well-formed dict its parsed form, anything else an error.
pydict_to_metadata(metadata) ==
    CASE metadata = "None" -> [ok |-> TRUE,  value |-> "default"]
      [] metadata = "dict" -> [ok |-> TRUE,  value |-> "parsed"]
      [] OTHER             -> [ok |-> FALSE, value |-> ""]

\* status_enum.getattr("value") then status_val.extract::<i32>()
ExtractStatus(ret) ==
    IF ~ret.hasValue THEN [ok |-> FALSE, value |-> 0,
                           cause |-> "on_event must have enum return value"]
    ELSE IF ret.valueKind # "i32"
         THEN [ok |-> FALSE, value |-> 0,
               cause |-> "on_event has invalid return value"]
    ELSE [ok |-> TRUE, value |-> ret.value, cause |-> ""]

\* ------------------------------------------------------------------ Init
NoResult == [kind |-> "none", reason |-> "", cause |-> ""]
OkResult(r)  == [kind |-> "Ok",    reason |-> r,  cause |-> ""]
ErrResult(c) == [kind |-> "Err",   reason |-> "", cause |-> c]
PanicResult  == [kind |-> "Panic", reason |-> "", cause |-> ""]

Init ==
    /\ pc = "start"
    /\ srcOutcome = "pending"
    /\ initOutcome = "pending"
    /\ operator = "none"
    /\ initSignal = "unsent"
    /\ initRxDropped = FALSE
    /\ incoming = <<>>
    /\ fed = 0
    /\ inClosed = FALSE
    /\ event = 0
    /\ dispatched = <<>>
    /\ outcomes = <<>>
    /\ sent = <<>>
    /\ drained = 0
    /\ outClosed = FALSE
    /\ pending = <<>>
    /\ calls = <<>>
    /\ reason = ""
    /\ result = NoResult
    /\ terminal = <<>>
    /\ runResult = "none"
    /\ gil = "free"

\* ---------------------------------------------------------- run, lines 38-58
\* how lines 38-58 can end for a URL source (source_is_url) and for a path
SourceOutcomes(isUrl) ==
    IF isUrl
    THEN {"runtime_build_failed", "download_failed", "not_exists",
          "canonicalize_failed", "ok"}
    ELSE {"not_exists", "canonicalize_failed", "ok"}

\* fault variant: the `!path.exists()` check is missing
ResolveSource_NoExistsCheck ==
    /\ pc = "start"
    /\ \E isUrl \in BOOLEAN : \E o \in SourceOutcomes(isUrl) :
        /\ srcOutcome' = o
        /\ IF o \in {"ok", "not_exists"}
           THEN pc' = "init_gil" /\ UNCHANGED runResult
           ELSE pc' = "returned" /\ runResult' = "Err"
    /\ UNCHANGED <<initOutcome, operator, initSignal, initRxDropped,
                   incoming, fed, inClosed, event, dispatched, outcomes, sent,
                   drained, outClosed, pending, calls, reason, result, terminal,
                   gil>>

\* Source resolution.  Every failure leaves run through `?` / bail!, before
\* catch_unwind is reached: run returns Err and nothing is sent.
ResolveSource ==
    /\ pc = "start"
    /\ \E isUrl \in BOOLEAN : \E o \in SourceOutcomes(isUrl) :
        /\ srcOutcome' = o
        /\ IF o = "ok"
           THEN pc' = "init_gil" /\ UNCHANGED runResult
           ELSE pc' = "returned" /\ runResult' = "Err"
    /\ UNCHANGED <<initOutcome, operator, initSignal, initRxDropped,
                   incoming, fed, inClosed, event, dispatched, outcomes, sent,
                   drained, outClosed, pending, calls, reason, result, terminal,
                   gil>>

\* ------------------------------------------------- python_runner, 99-103
\* Python::with_gil(init_operator) waits for the interpreter lock
AcquireGilInit ==
    /\ pc = "init_gil"
    /\ gil = "free"
    /\ gil' = "session"
    /\ pc' = "init"
    /\ UNCHANGED <<srcOutcome, initOutcome, operator, initSignal,
                   initRxDropped, incoming, fed, inClosed, event, dispatched,
                   outcomes, sent, drained, outClosed, pending, calls, reason,
                   result, terminal, runResult>>

InitOutcomes ==
    {"ok", "path_not_utf8", "sys_path_failed", "no_file_stem", "import_raised",
     "no_operator_class", "construction_raised", "panic"}

\* fault variant: init_done is signalled before init_operator has succeeded
InitOperator_SignalFirst ==
    /\ pc = "init"
    /\ initSignal' = IF initRxDropped THEN "undelivered" ELSE "sent"
    /\ \E o \in InitOutcomes :
        /\ initOutcome' = o
        /\ CASE o = "ok" ->
                  /\ operator' = "live"
                  /\ pc' = "recv"
                  /\ UNCHANGED result
             [] o = "panic" ->
                  /\ result' = PanicResult
                  /\ pc' = "report"
                  /\ UNCHANGED operator
             [] OTHER ->
                  /\ result' = ErrResult("failed to init python operator")
                  /\ pc' = "report"
                  /\ UNCHANGED operator
    /\ gil' = "free"
    /\ UNCHANGED <<srcOutcome, initRxDropped, incoming, fed,
                   inClosed, event, dispatched, outcomes, sent, drained,
                   outClosed, pending, calls, reason, terminal, runResult>>

\* fault variant: an undelivered init_done is turned into an error
InitOperator_SendChecked ==
    /\ pc = "init"
    /\ \E o \in InitOutcomes :
        /\ initOutcome' = o
        /\ CASE o = "ok" /\ ~initRxDropped ->
                  /\ operator' = "live"
                  /\ initSignal' = "sent"
                  /\ pc' = "recv"
                  /\ UNCHANGED result
             [] o = "ok" /\ initRxDropped ->
                  /\ operator' = "dropped_unlocked"
                  /\ initSignal' = "undelivered"
                  /\ result' = ErrResult("failed to report init")
                  /\ pc' = "report"
             [] o = "panic" ->
                  /\ result' = PanicResult
                  /\ pc' = "report"
                  /\ UNCHANGED <<operator, initSignal>>
             [] OTHER ->
                  /\ result' = ErrResult("failed to init python operator")
                  /\ pc' = "report"
                  /\ UNCHANGED <<operator, initSignal>>
    /\ gil' = "free"
    /\ UNCHANGED <<srcOutcome, initRxDropped, incoming, fed,
                   inClosed, event, dispatched, outcomes, sent, drained,
                   outClosed, pending, calls, reason, terminal, runResult>>

\* init_operator runs under the lock; the lock is released when with_gil
\* returns or unwinds.  On success init_done.send(()) follows (its result is
\* discarded); on Err the `?` leaves python_runner, on a panic catch_unwind
\* takes over.
InitOperator ==
    /\ pc = "init"
    /\ \E o \in InitOutcomes :
        /\ initOutcome' = o
        /\ CASE o = "ok" ->
                  /\ operator' = "live"
                  /\ initSignal' = IF initRxDropped THEN "undelivered" ELSE "sent"
                  /\ pc' = "recv"
                  /\ UNCHANGED result
             [] o = "panic" ->
                  /\ result' = PanicResult
                  /\ pc' = "report"
                  /\ UNCHANGED <<operator, initSignal>>
             [] OTHER ->
                  /\ result' = ErrResult("failed to init python operator")
                  /\ pc' = "report"
                  /\ UNCHANGED <<operator, initSignal>>
    /\ gil' = "free"
    /\ UNCHANGED <<srcOutcome, initRxDropped, incoming, fed,
                   inClosed, event, dispatched, outcomes, sent, drained,
                   outClosed, pending, calls, reason, terminal, runResult>>

\* ------------------------------------------------- python_runner, 105-106
\* fault variant: a disconnected channel loses its queued events
RecvResult_DisconnectFirst(queue, closed) ==
    IF closed THEN "disconnected"
    ELSE IF queue # <<>> THEN "event" ELSE "block"

\* fault variant: the disconnect is never reported, recv keeps waiting
RecvResult_WaitsWhenClosed(queue, closed) ==
    IF queue # <<>> THEN "event" ELSE "block"

\* flume recv: an event if one is queued, Err once the queue is empty and
\* every sender is gone, otherwise it blocks.
RecvResult(queue, closed) ==
    IF queue # <<>> THEN "event"
    ELSE IF closed THEN "disconnected" ELSE "block"

\* fault variant: the closed upstream channel is treated as an error
Recv_ClosedIsError ==
    /\ pc = "recv"
    /\ RecvResult(incoming, inClosed) # "block"
    /\ IF RecvResult(incoming, inClosed) = "event"
       THEN /\ event' = Head(incoming)
            /\ incoming' = Tail(incoming)
            /\ pc' = "dispatch_gil"
            /\ UNCHANGED <<result, operator>>
       ELSE /\ result' = ErrResult("incoming channel closed")
            /\ operator' = "dropped_unlocked"
            /\ pc' = "report"
            /\ UNCHANGED <<event, incoming>>
    /\ UNCHANGED <<srcOutcome, initOutcome, initSignal,
                   initRxDropped, fed, inClosed, dispatched, outcomes, sent,
                   drained, outClosed, pending, calls, reason, terminal,
                   runResult, gil>>

\* fault variant: the newest queued event is taken first
Recv_TakesNewest ==
    /\ pc = "recv"
    /\ RecvResult(incoming, inClosed) # "block"
    /\ IF RecvResult(incoming, inClosed) = "event"
       THEN /\ event' = Last(incoming)
            /\ incoming' = SubSeq(incoming, 1, Len(incoming) - 1)
            /\ pc' = "dispatch_gil"
            /\ UNCHANGED reason
       ELSE /\ reason' = "InputsClosed"
            /\ pc' = "drop_gil"
            /\ UNCHANGED <<event, incoming>>
    /\ UNCHANGED <<srcOutcome, initOutcome, operator, initSignal,
                   initRxDropped, fed, inClosed, dispatched, outcomes, sent,
                   drained, outClosed, pending, calls, result, terminal,
                   runResult, gil>>

\* let Ok(mut event) = incoming_events.recv() else { break InputsClosed }
\* (the trace-context rewrite at 108-133 touches only the event's metadata
\* and has no failing path; events are represented by their ids)
Recv ==
    /\ pc = "recv"
    /\ RecvResult(incoming, inClosed) # "block"
    /\ IF RecvResult(incoming, inClosed) = "event"
       THEN /\ event' = Head(incoming)
            /\ incoming' = Tail(incoming)
            /\ pc' = "dispatch_gil"
            /\ UNCHANGED reason
       ELSE /\ reason' = "InputsClosed"
            /\ pc' = "drop_gil"
            /\ UNCHANGED <<event, incoming>>
    /\ UNCHANGED <<srcOutcome, initOutcome, operator, initSignal,
                   initRxDropped, fed, inClosed, dispatched, outcomes, sent,
                   drained, outClosed, pending, calls, result, terminal,
                   runResult, gil>>

\* ------------------------------------------------- python_runner, 134-149
\* fault variant: on_event is entered without waiting for the lock
AcquireGilDispatch_NoLock ==
    /\ pc = "dispatch_gil"
    /\ dispatched' = Append(dispatched, event)
    /\ pc' = "call"
    /\ UNCHANGED <<srcOutcome, initOutcome, operator, initSignal,
                   initRxDropped, incoming, fed, inClosed, event, outcomes,
                   sent, drained, outClosed, pending, calls, reason, result,
                   terminal, runResult, gil>>

\* Python::with_gil for the dispatch: take the lock, convert the event,
\* enter operator.on_event(input_dict, send_output)
AcquireGilDispatch ==
    /\ pc = "dispatch_gil"
    /\ gil = "free"
    /\ gil' = "session"
    /\ dispatched' = Append(dispatched, event)
    /\ pc' = "call"
    /\ UNCHANGED <<srcOutcome, initOutcome, operator, initSignal,
                   initRxDropped, incoming, fed, inClosed, event, outcomes,
                   sent, drained, outClosed, pending, calls, reason, result,
                   terminal, runResult>>

\* --------------------------------------- SendOutputCallback::__call__, 214-236
\* The guest, inside on_event, calls send_output(output, data, metadata).
\* The metadata is parsed first: a parse error is returned to the guest as
\* an exception and nothing is sent.  Otherwise the Output event is built
\* and handed to blocking_send.
CallSendOutput ==
    /\ pc = "call"
    /\ Len(calls) < MaxCalls
    /\ \E a \in CallArgs :
         LET md == pydict_to_metadata(a.metadata) IN
         IF md.ok
         THEN /\ pending' = <<a, Output(a.output, md.value, ToOwned(a.data))>>
              /\ pc' = "send"
              /\ UNCHANGED calls
         ELSE /\ calls' = Append(calls, [args |-> a, ok |-> FALSE])
              /\ pc' = "callback_failed"
              /\ UNCHANGED pending
    /\ UNCHANGED <<srcOutcome, initOutcome, operator, initSignal,
                   initRxDropped, incoming, fed, inClosed, event, dispatched,
                   outcomes, sent, drained, outClosed, reason, result,
                   terminal, runResult, gil>>

\* tokio mpsc blocking_send: Err when the receiver is closed, otherwise it
\* waits for a free slot and enqueues the message.
\* fault variant: the send never waits for a free slot
CanSend_NeverWaits == TRUE

CanSend == outClosed \/ Len(chan) < OutCap

\* fault variant: a closed outgoing channel ends the session from inside the
\* callback instead of raising in the guest
BlockingSendOutput_ClosedIsFatal ==
    /\ pc = "send"
    /\ CanSend
    /\ IF outClosed
       THEN /\ calls' = Append(calls, [args |-> pending[1], ok |-> FALSE])
            /\ result' = ErrResult("failed to send output to runtime")
            /\ operator' = "dropped_unlocked"
            /\ gil' = "free"
            /\ pc' = "report"
            /\ UNCHANGED sent
       ELSE /\ sent' = Append(sent, pending[2])
            /\ calls' = Append(calls, [args |-> pending[1], ok |-> TRUE])
            /\ pc' = "call"
            /\ UNCHANGED <<result, operator, gil>>
    /\ pending' = <<>>
    /\ UNCHANGED <<srcOutcome, initOutcome, initSignal,
                   initRxDropped, incoming, fed, inClosed, event, dispatched,
                   outcomes, drained, outClosed, reason, terminal, runResult>>

BlockingSendOutput ==
    /\ pc = "send"
    /\ CanSend
    /\ IF outClosed
       THEN /\ calls' = Append(calls, [args |-> pending[1], ok |-> FALSE])
            /\ pc' = "callback_failed"
            /\ UNCHANGED sent
       ELSE /\ sent' = Append(sent, pending[2])
            /\ calls' = Append(calls, [args |-> pending[1], ok |-> TRUE])
            /\ pc' = "call"
    /\ pending' = <<>>
    /\ UNCHANGED <<srcOutcome, initOutcome, operator, initSignal,
                   initRxDropped, incoming, fed, inClosed, event, dispatched,
                   outcomes, drained, outClosed, reason, result, terminal,
                   runResult, gil>>

\* the guest handles the exception raised by send_output and goes on
GuestCatch ==
    /\ pc = "callback_failed"
    /\ pc' = "call"
    /\ UNCHANGED <<srcOutcome, initOutcome, operator, initSignal,
                   initRxDropped, incoming, fed, inClosed, event, dispatched,
                   outcomes, sent, drained, outClosed, pending, calls, reason,
                   result, terminal, runResult, gil>>

\* ------------------------------------------------- python_runner, 148-161
\* fault variant: every status above Stop is taken as StopAll
StatusNext_OtherIsStopAll(status) ==
    CASE status = Continue -> [pc |-> "recv",     reason |-> "",                cause |-> ""]
      [] status = Stop     -> [pc |-> "drop_gil", reason |-> "ExplicitStop",    cause |-> ""]
      [] status >= StopAll -> [pc |-> "drop_gil", reason |-> "ExplicitStopAll", cause |-> ""]
      [] OTHER             -> [pc |-> "report",   reason |-> "",
                               cause |-> "on_event returned invalid status"]

\* fault variant: the Stop arm does not break out of the loop
StatusNext_StopContinues(status) ==
    CASE status \in {Continue, Stop} ->
                              [pc |-> "recv",     reason |-> "",                cause |-> ""]
      [] status = StopAll  -> [pc |-> "drop_gil", reason |-> "ExplicitStopAll", cause |-> ""]
      [] OTHER             -> [pc |-> "report",   reason |-> "",
                               cause |-> "on_event returned invalid status"]

\* match status { Continue => {}, Stop => break, StopAll => break, _ => bail! }
StatusNext(status) ==
    CASE status = Continue -> [pc |-> "recv",     reason |-> "",                cause |-> ""]
      [] status = Stop     -> [pc |-> "drop_gil", reason |-> "ExplicitStop",    cause |-> ""]
      [] status = StopAll  -> [pc |-> "drop_gil", reason |-> "ExplicitStopAll", cause |-> ""]
      [] OTHER             -> [pc |-> "report",   reason |-> "",
                               cause |-> "on_event returned invalid status"]

\* fault variant: a dispatch error is dropped and the loop goes on
LeaveRunner_ErrorContinues(res) ==
    IF res.kind = "Err"
    THEN /\ pc' = "recv"
         /\ UNCHANGED <<result, operator, reason>>
    ELSE /\ result' = res
         /\ operator' = "dropped_unlocked"
         /\ pc' = "report"
         /\ UNCHANGED reason

\* python_runner is left with Err while it owns the operator: the Py<PyAny>
\* is dropped after with_gil has returned, i.e. without the lock.
LeaveRunner(res) ==
    /\ result' = res
    /\ operator' = "dropped_unlocked"
    /\ pc' = "report"
    /\ UNCHANGED reason

\* on_event returns: the status is extracted, the lock released, the status
\* matched.
HandlerReturn ==
    /\ pc = "call"
    /\ \E ret \in ReturnValues :
        /\ outcomes' = Append(outcomes, Returned(ret))
        /\ LET st == ExtractStatus(ret) IN
           IF ~st.ok
           THEN LeaveRunner(ErrResult(st.cause))
           ELSE LET nx == StatusNext(st.value) IN
                IF nx.pc = "report"
                THEN LeaveRunner(ErrResult(nx.cause))
                ELSE /\ pc' = nx.pc
                     /\ reason' = nx.reason
                     /\ UNCHANGED <<result, operator>>
    /\ gil' = "free"
    /\ event' = 0
    /\ UNCHANGED <<srcOutcome, initOutcome, initSignal,
                   initRxDropped, incoming, fed, inClosed, dispatched, sent,
                   drained, outClosed, pending, calls, terminal, runResult>>

\* on_event raises (its own exception, or one from send_output it did not
\* handle): call_method1 gives Err, map_err(traceback)? leaves with_gil and
\* python_runner.
HandlerRaise ==
    /\ pc \in {"call", "callback_failed"}
    /\ outcomes' = Append(outcomes, Raised)
    /\ LeaveRunner(ErrResult("guest exception"))
    /\ gil' = "free"
    /\ event' = 0
    /\ UNCHANGED <<srcOutcome, initOutcome, initSignal,
                   initRxDropped, incoming, fed, inClosed, dispatched, sent,
                   drained, outClosed, pending, calls, terminal, runResult>>

\* fault variant: the unwinding does not give the lock back
HandlerPanic_LockLeaked ==
    /\ pc \in {"call", "callback_failed"}
    /\ outcomes' = Append(outcomes, Panicked)
    /\ LeaveRunner(PanicResult)
    /\ event' = 0
    /\ UNCHANGED <<srcOutcome, initOutcome, initSignal,
                   initRxDropped, incoming, fed, inClosed, dispatched, sent,
                   drained, outClosed, pending, calls, terminal, runResult,
                   gil>>

\* a panic unwinds out of the guest call; the GIL guard and the operator are
\* dropped by the unwinding, catch_unwind (line 178) stops it.
HandlerPanic ==
    /\ pc \in {"call", "callback_failed"}
    /\ outcomes' = Append(outcomes, Panicked)
    /\ LeaveRunner(PanicResult)
    /\ gil' = "free"
    /\ event' = 0
    /\ UNCHANGED <<srcOutcome, initOutcome, initSignal,
                   initRxDropped, incoming, fed, inClosed, dispatched, sent,
                   drained, outClosed, pending, calls, terminal, runResult>>

\* ------------------------------------------------- python_runner, 164-170
AcquireGilDrop ==
    /\ pc = "drop_gil"
    /\ gil = "free"
    /\ gil' = "session"
    /\ pc' = "drop"
    /\ UNCHANGED <<srcOutcome, initOutcome, operator, initSignal,
                   initRxDropped, incoming, fed, inClosed, event, dispatched,
                   outcomes, sent, drained, outClosed, pending, calls, reason,
                   result, terminal, runResult>>

\* drop(operator) under the lock, then Ok(reason)
DropOperator ==
    /\ pc = "drop"
    /\ operator' = "destroyed"
    /\ gil' = "free"
    /\ result' = OkResult(reason)
    /\ pc' = "report"
    /\ UNCHANGED <<srcOutcome, initOutcome, initSignal,
                   initRxDropped, incoming, fed, inClosed, event, dispatched,
                   outcomes, sent, drained, outClosed, pending, calls, reason,
                   terminal, runResult>>

\* ----------------------------------------------------------- run, 178-190
\* fault variant: a caught panic is reported like an ordinary error
TerminalEvent_PanicAsError(res) ==
    CASE res.kind = "Ok"  -> Finished(res.reason)
      [] OTHER            -> Error(res.cause)

\* the three arms of the match at line 178
TerminalEvent(res) ==
    CASE res.kind = "Ok"  -> Finished(res.reason)
      [] res.kind = "Err" -> Error(res.cause)
      [] OTHER            -> Panic

\* fault variant: the Err arm does not report
Report_ErrorSwallowed ==
    /\ pc = "report"
    /\ CanSend
    /\ IF result.kind = "Err"
       THEN UNCHANGED <<terminal, sent>>
       ELSE /\ terminal' = Append(terminal, TerminalEvent(result))
            /\ sent' = IF outClosed THEN sent
                       ELSE Append(sent, TerminalEvent(result))
    /\ runResult' = "Ok"
    /\ pc' = "returned"
    /\ UNCHANGED <<srcOutcome, initOutcome, operator, initSignal,
                   initRxDropped, incoming, fed, inClosed, event, dispatched,
                   outcomes, drained, outClosed, pending, calls, reason,
                   result, gil>>

\* match catch_unwind(closure): one blocking_send whose result is discarded,
\* then Ok(())
Report ==
    /\ pc = "report"
    /\ CanSend
    /\ terminal' = Append(terminal, TerminalEvent(result))
    /\ sent' = IF outClosed THEN sent ELSE Append(sent, TerminalEvent(result))
    /\ runResult' = "Ok"
    /\ pc' = "returned"
    /\ UNCHANGED <<srcOutcome, initOutcome, operator, initSignal,
                   initRxDropped, incoming, fed, inClosed, event, dispatched,
                   outcomes, drained, outClosed, pending, calls, reason,
                   result, gil>>

\* ------------------------------------------------------------ environment
\* the host feeds an event on the upstream channel
FeedEvent ==
    /\ ~inClosed
    /\ fed < MaxEvents
    /\ fed' = fed + 1
    /\ incoming' = Append(incoming, fed + 1)
    /\ UNCHANGED <<pc, srcOutcome, initOutcome, operator,
                   initSignal, initRxDropped, inClosed, event, dispatched,
                   outcomes, sent, drained, outClosed, pending, calls, reason,
                   result, terminal, runResult, gil>>

\* the host drops the upstream senders
CloseUpstream ==
    /\ ~inClosed
    /\ inClosed' = TRUE
    /\ UNCHANGED <<pc, srcOutcome, initOutcome, operator,
                   initSignal, initRxDropped, incoming, fed, event, dispatched,
                   outcomes, sent, drained, outClosed, pending, calls, reason,
                   result, terminal, runResult, gil>>

\* the host receives one message from the outgoing channel
HostRecv ==
    /\ drained < Len(sent)
    /\ drained' = drained + 1
    /\ UNCHANGED <<pc, srcOutcome, initOutcome, operator,
                   initSignal, initRxDropped, incoming, fed, inClosed, event,
                   dispatched, outcomes, sent, outClosed, pending, calls,
                   reason, result, terminal, runResult, gil>>

\* the host closes the receiving side of the outgoing channel
HostClose ==
    /\ ~outClosed
    /\ outClosed' = TRUE
    /\ UNCHANGED <<pc, srcOutcome, initOutcome, operator,
                   initSignal, initRxDropped, incoming, fed, inClosed, event,
                   dispatched, outcomes, sent, drained, pending, calls, reason,
                   result, terminal, runResult, gil>>

\* the host drops the init_done receiver before the signal is sent
HostDropInitDone ==
    /\ ~initRxDropped
    /\ initSignal = "unsent"
    /\ initRxDropped' = TRUE
    /\ UNCHANGED <<pc, srcOutcome, initOutcome, operator,
                   initSignal, incoming, fed, inClosed, event, dispatched,
                   outcomes, sent, drained, outClosed, pending, calls, reason,
                   result, terminal, runResult, gil>>

\* another operator thread of the process takes / gives back the lock.  A
\* Py<PyAny> dropped without the lock is only queued for release (pyo3's
\* reference pool); the next thread that acquires the lock applies the queue.
SiblingAcquire ==
    /\ gil = "free"
    /\ gil' = "sibling"
    /\ operator' = IF operator = "dropped_unlocked" THEN "destroyed_late"
                   ELSE operator
    /\ UNCHANGED <<pc, srcOutcome, initOutcome,
                   initSignal, initRxDropped, incoming, fed, inClosed, event,
                   dispatched, outcomes, sent, drained, outClosed, pending,
                   calls, reason, result, terminal, runResult>>

SiblingRelease ==
    /\ gil = "sibling"
    /\ gil' = "free"
    /\ UNCHANGED <<pc, srcOutcome, initOutcome, operator,
                   initSignal, initRxDropped, incoming, fed, inClosed, event,
                   dispatched, outcomes, sent, drained, outClosed, pending,
                   calls, reason, result, terminal, runResult>>

Next ==
    \/ ResolveSource
    \/ AcquireGilInit
    \/ InitOperator
    \/ Recv
    \/ AcquireGilDispatch
    \/ CallSendOutput
    \/ BlockingSendOutput
    \/ GuestCatch
    \/ HandlerReturn
    \/ HandlerRaise
    \/ HandlerPanic
    \/ AcquireGilDrop
    \/ DropOperator
    \/ Report
    \/ FeedEvent
    \/ CloseUpstream
    \/ HostRecv
    \/ HostClose
    \/ HostDropInitDone
    \/ SiblingAcquire
    \/ SiblingRelease

Spec == Init /\ [][Next]_vars

\* The session thread runs whenever it can take a step of run; a thread
\* waiting for the lock gets it once it is given back often enough; a
\* sibling's guest call ends; the host keeps receiving from the outgoing
\* channel and, having fed finitely many events, drops the upstream senders.
SessionStep ==
    \/ ResolveSource
    \/ InitOperator
    \/ Recv
    \/ BlockingSendOutput
    \/ HandlerReturn
    \/ HandlerRaise
    \/ HandlerPanic
    \/ DropOperator
    \/ Report

LockStep == AcquireGilInit \/ AcquireGilDispatch \/ AcquireGilDrop

FairSpec ==
    /\ Spec
    /\ WF_vars(SessionStep)
    /\ SF_vars(LockStep)
    /\ WF_vars(SiblingRelease)
    /\ WF_vars(HostRecv)
    /\ WF_vars(CloseUpstream)

TypeOK ==
    /\ pc \in {"start", "init_gil", "init", "recv", "dispatch_gil", "call",
               "send", "callback_failed", "drop_gil", "drop", "report",
               "returned"}
    /\ gil \in {"free", "session", "sibling"}
    /\ operator \in {"none", "live", "destroyed", "dropped_unlocked",
                    "destroyed_late"}
    /\ Len(terminal) <= 1
    /\ drained <= Len(sent)

\* ------------------------------------------------------------- properties
Terminals(s) == {i \in 1..Len(s) : IsTerminal(s[i])}
OutputsOf(s) == SelectSeq(s, LAMBDA m : m.type = "Output")
SourceFailed == srcOutcome \notin {"pending", "ok"}
InitFailed   == initOutcome \notin {"pending", "ok", "panic"}
\* events taken from the upstream channel so far
ReceivedCount == fed - Len(incoming)
Ended == pc \in {"report", "returned"}
IsContinue(o) == o = Returned(RetObj(TRUE, "i32", Continue))

\* C1 as stated: once run has returned, exactly one of Finished / Error /
\* Panic was put on the outgoing channel and it is the last message on it.
C1_AsStated ==
    pc = "returned" =>
        /\ Cardinality(Terminals(sent)) = 1
        /\ IsTerminal(Last(sent))

\* C1, amended: a session whose source resolution succeeded hands exactly one
\* of Finished / Error / Panic to the outgoing channel, as its last send; the
\* message is enqueued unless the host closed the receiving side; nothing is
\* enqueued after it.  A session whose source resolution failed returns Err
\* and sends nothing.
C1_OneTerminalLast ==
    /\ Len(terminal) <= 1
    /\ \A i \in Terminals(sent) : i = Len(sent) /\ terminal = <<sent[i]>>
    /\ pc # "returned" => terminal = <<>>
    /\ (pc = "returned" /\ ~SourceFailed) =>
          /\ Len(terminal) = 1
          /\ IsTerminal(terminal[1])
          /\ runResult = "Ok"
          /\ ~outClosed => (sent # <<>> /\ Last(sent) = terminal[1])
    /\ (pc = "returned" /\ SourceFailed) =>
          /\ terminal = <<>>
          /\ sent = <<>>
          /\ runResult = "Err"

C1_Witness ==
    /\ pc = "returned"
    /\ Len(sent) = 3
    /\ sent[1].type = "Output"
    /\ sent[2].type = "Output"
    /\ sent[3] = Finished("ExplicitStop")
    /\ terminal = <<sent[3]>>

\* C2: the value returned by on_event decides the cycle: 0 keeps the loop
\* running (the session is receiving or dispatching the next event, or it
\* ended because the inputs were closed), 1 ends it with
\* Finished{ExplicitStop}, 2 with Finished{ExplicitStopAll}; any other
\* integer, a missing `value` and a non-i32 `value` end it at once with Error.
ExpectedStop(v) == IF v = Stop THEN "ExplicitStop" ELSE "ExplicitStopAll"

C2_StatusDecides ==
    \A i \in 1..Len(outcomes) :
        outcomes[i].kind = "return" =>
            LET r == outcomes[i].ret IN
            IF IsContinue(outcomes[i])
            THEN i = Len(outcomes) =>
                    \/ pc \in {"recv", "dispatch_gil", "call", "send",
                               "callback_failed"}
                    \/ /\ pc \in {"drop_gil", "drop", "report", "returned"}
                       /\ reason = "InputsClosed"
                       /\ pc = "returned" =>
                              terminal = <<Finished("InputsClosed")>>
            ELSE IF r.hasValue /\ r.valueKind = "i32" /\ r.value \in {Stop, StopAll}
            THEN /\ i = Len(outcomes)
                 /\ pc \in {"drop_gil", "drop", "report", "returned"}
                 /\ reason = ExpectedStop(r.value)
                 /\ Ended => result = OkResult(ExpectedStop(r.value))
                 /\ pc = "returned" =>
                        terminal = <<Finished(ExpectedStop(r.value))>>
            ELSE /\ i = Len(outcomes)
                 /\ Ended
                 /\ result.kind = "Err"
                 /\ pc = "returned" => /\ Len(terminal) = 1
                                       /\ terminal[1].type = "Error"

C2_Witness ==
    /\ pc = "returned"
    /\ Len(outcomes) = 2
    /\ IsContinue(outcomes[1])
    /\ outcomes[2] = Returned(RetObj(TRUE, "i32", 3))
    /\ Last(sent) = Error("on_event returned invalid status")

\* C3 as stated: when source resolution fails an Error event is sent on the
\* outgoing channel, nothing is dispatched and the init signal is not sent.
C3_AsStated ==
    SourceFailed =>
        /\ \E i \in 1..Len(sent) : sent[i].type = "Error"
        /\ dispatched = <<>>
        /\ initSignal = "unsent"

\* C3, amended: when source resolution fails run returns Err to its caller;
\* no message is sent on the outgoing channel, no terminal send is made,
\* nothing is received or dispatched, the operator is never created and the
\* init signal is not sent.
C3_SourceFailureReturnsErr ==
    SourceFailed =>
        /\ pc = "returned"
        /\ runResult = "Err"
        /\ sent = <<>>
        /\ terminal = <<>>
        /\ dispatched = <<>>
        /\ ReceivedCount = 0
        /\ operator = "none"
        /\ initSignal = "unsent"

C3_Witness ==
    /\ srcOutcome = "not_exists"
    /\ pc = "returned"
    /\ Len(incoming) = 2
    /\ ~outClosed

\* C4: when init_operator fails (search path, import, missing Operator,
\* construction) the session ends with Error, no event is received or
\* dispatched and the init signal is never sent.
C4_InitFailureIsError ==
    InitFailed =>
        /\ Ended
        /\ result = ErrResult("failed to init python operator")
        /\ pc = "returned" =>
              /\ terminal = <<Error("failed to init python operator")>>
              /\ ~outClosed => Last(sent) = terminal[1]
        /\ operator = "none"
        /\ ReceivedCount = 0
        /\ event = 0
        /\ dispatched = <<>>
        /\ initSignal = "unsent"

C4_Witness ==
    /\ initOutcome = "import_raised"
    /\ pc = "returned"
    /\ sent = <<Error("failed to init python operator")>>
    /\ incoming # <<>>

\* C5: with a successful initialization and an upstream channel closed before
\* any event was fed, on_event is never called, no Output is emitted and the
\* session ends with Finished{InputsClosed}.
C5_ClosedBeforeAnyEvent ==
    (initOutcome = "ok" /\ inClosed /\ fed = 0) =>
        /\ dispatched = <<>>
        /\ outcomes = <<>>
        /\ calls = <<>>
        /\ OutputsOf(sent) = <<>>
        /\ pc \in {"recv", "drop_gil", "drop", "report", "returned"}
        /\ Ended => result = OkResult("InputsClosed")
        /\ pc = "returned" => terminal = <<Finished("InputsClosed")>>

C5_Witness ==
    /\ initOutcome = "ok"
    /\ inClosed
    /\ fed = 0
    /\ pc = "returned"
    /\ sent = <<Finished("InputsClosed")>>

\* C6: when on_event returns Stop (StopAll) on the k-th dispatched event,
\* the session has exactly k dispatch attempts, took exactly k events from
\* the upstream channel (what is still queued stays there), and its terminal
\* message is Finished{ExplicitStop} (Finished{ExplicitStopAll}).
IsStop(o) ==
    /\ o.kind = "return"
    /\ o.ret.hasValue
    /\ o.ret.valueKind = "i32"
    /\ o.ret.value \in {Stop, StopAll}

C6_StopOnKth ==
    \A k \in 1..Len(outcomes) :
        IsStop(outcomes[k]) =>
            /\ Len(outcomes) = k
            /\ Len(dispatched) = k
            /\ ReceivedCount = k
            /\ event = 0
            /\ pc \in {"drop_gil", "drop", "report", "returned"}
            /\ pc = "returned" =>
                  /\ terminal = <<Finished(ExpectedStop(outcomes[k].ret.value))>>
                  /\ ~outClosed => Last(sent) = terminal[1]

C6_Witness ==
    /\ pc = "returned"
    /\ Len(dispatched) = 2
    /\ IsContinue(outcomes[1])
    /\ outcomes[2] = Returned(RetObj(TRUE, "i32", Stop))
    /\ incoming = <<3>>
    /\ Last(sent) = Finished("ExplicitStop")

\* C7: when on_event raises on the k-th dispatched event the session ends on
\* that cycle with Error: no further event is received, the k-th event is the
\* last one dispatched and no event is dispatched twice.
C7_RaiseEndsSession ==
    \A k \in 1..Len(outcomes) :
        outcomes[k].kind = "raise" =>
            /\ Len(outcomes) = k
            /\ Len(dispatched) = k
            /\ \A i, j \in 1..k : dispatched[i] = dispatched[j] => i = j
            /\ ReceivedCount = k
            /\ Ended
            /\ result = ErrResult("guest exception")
            /\ pc = "returned" =>
                  /\ terminal = <<Error("guest exception")>>
                  /\ ~outClosed => Last(sent) = terminal[1]

C7_Witness ==
    /\ pc = "returned"
    /\ Len(outcomes) = 1
    /\ outcomes[1].kind = "raise"
    /\ Len(incoming) = 2
    /\ Last(sent) = Error("guest exception")

\* C8 as stated: every call of the output callback produced exactly one
\* Output message carrying the call's output id and bytes.
SameOutput(m, a) == m.output_id = a.output /\ m.data = a.data

C8_AsStated ==
    /\ Len(OutputsOf(sent)) = Len(calls)
    /\ \A i \in 1..Len(calls) : SameOutput(OutputsOf(sent)[i], calls[i].args)

\* C8, amended: every call of the output callback that returns without error
\* (metadata parsed, outgoing channel open) produced exactly one Output
\* message, in call order, with the call's output id and the same bytes; a
\* call that returned an error produced none.
SucceededCalls == SelectSeq(calls, LAMBDA c : c.ok)

C8_SucceededCallsForwarded ==
    /\ Len(OutputsOf(sent)) = Len(SucceededCalls)
    /\ \A i \in 1..Len(SucceededCalls) :
          /\ SameOutput(OutputsOf(sent)[i], SucceededCalls[i].args)
          /\ OutputsOf(sent)[i].metadata =
                 pydict_to_metadata(SucceededCalls[i].args.metadata).value
    /\ \A i \in 1..Len(calls) :
          calls[i].ok => pydict_to_metadata(calls[i].args.metadata).ok

C8_Witness ==
    /\ Len(calls) = 2
    /\ calls[1].ok /\ calls[2].ok
    /\ calls[1].args.data = <<7, 0>>
    /\ calls[2].args.data = <<>>
    /\ Len(OutputsOf(sent)) = 2
    /\ sent[1].data = <<7, 0>>

\* C9: a panic unwinding out of init_operator or out of an on_event call is
\* caught in run: the outcome is Panic, the terminal message is Panic (never
\* Error or Finished) and run returns Ok.
PanicHappened ==
    \/ initOutcome = "panic"
    \/ \E k \in 1..Len(outcomes) : outcomes[k].kind = "panic"

C9_PanicIsCaught ==
    PanicHappened =>
        /\ Ended
        /\ result = PanicResult
        /\ \A i \in 1..Len(sent) : sent[i].type \notin {"Error", "Finished"}
        /\ pc = "returned" =>
              /\ runResult = "Ok"
              /\ terminal = <<Panic>>
              /\ ~outClosed => Last(sent) = Panic

C9_Witness ==
    /\ pc = "returned"
    /\ runResult = "Ok"
    /\ Len(outcomes) = 2
    /\ outcomes[2].kind = "panic"
    /\ Last(sent) = Panic

\* C10: when every on_event call returned Continue and the session has
\* ended, the upstream channel was closed, every event fed was dispatched
\* exactly once, in order, and the terminal message is Finished{InputsClosed}.
\* At any time the dispatched events are a prefix of the fed ones.
AllContinue == \A i \in 1..Len(outcomes) : IsContinue(outcomes[i])

C10_AllContinueRunsToClose ==
    /\ Len(dispatched) <= fed
    /\ \A i \in 1..Len(dispatched) : dispatched[i] = i
    /\ (initOutcome = "ok" /\ AllContinue /\ Ended) =>
          /\ inClosed
          /\ incoming = <<>>
          /\ Len(dispatched) = fed
          /\ Len(outcomes) = fed
          /\ result = OkResult("InputsClosed")
          /\ pc = "returned" =>
                /\ terminal = <<Finished("InputsClosed")>>
                /\ ~outClosed => Last(sent) = terminal[1]

C10_Witness ==
    /\ pc = "returned"
    /\ fed = 3
    /\ Len(outcomes) = 3
    /\ AllContinue
    /\ Last(sent) = Finished("InputsClosed")

\* C11: the init signal is sent at most once, only once init_operator has
\* returned the operator, and before the first event is taken from the
\* upstream channel; whether the host still listens for it makes no
\* difference to the step that sends it: the session goes on to the receive
\* with the operator alive and no result set.
C11_InitSignal ==
    /\ [](initSignal # "unsent" => initOutcome = "ok" /\ operator # "none")
    /\ []((ReceivedCount > 0 \/ dispatched # <<>> \/ event # 0) =>
              initSignal # "unsent")
    /\ [][initSignal # "unsent" => initSignal' = initSignal]_vars
    /\ [][initSignal' # initSignal =>
              /\ pc = "init" /\ pc' = "recv"
              /\ initSignal' = IF initRxDropped THEN "undelivered" ELSE "sent"
              /\ operator' = "live"
              /\ result' = NoResult
              /\ ReceivedCount' = 0]_vars

C11_Witness ==
    /\ initSignal = "undelivered"
    /\ pc = "returned"
    /\ Len(dispatched) = 2
    /\ terminal = <<Finished("ExplicitStopAll")>>

\* C12 as stated: the Output send of the callback and the terminal send do
\* not wait: whenever the session is in one of them the send can return.
InOutputSend   == pc = "send"
InTerminalSend == pc = "report"
ChannelFull    == ~outClosed /\ Len(chan) >= OutCap

C12_AsStated ==
    /\ InOutputSend => ENABLED BlockingSendOutput
    /\ InTerminalSend => ENABLED Report

\* C12, amended: both sends are blocking_send: while the outgoing channel is
\* full and its receiver open the session thread waits in the send, and it
\* returns as soon as the host has taken a message or closed the channel; the
\* channel never holds more than its capacity.
C12_SendsWaitWhileFull ==
    /\ Len(chan) <= OutCap
    /\ InOutputSend => (ENABLED BlockingSendOutput <=> ~ChannelFull)
    /\ InTerminalSend => (ENABLED Report <=> ~ChannelFull)

C12_Witness ==
    /\ InOutputSend
    /\ ChannelFull
    /\ chan[1].type = "Output"
    /\ ~ENABLED BlockingSendOutput

\* C13: the session does not hold the interpreter lock while it waits on a
\* blocking channel operation: the upstream receive with nothing to take, or
\* a send on the full outgoing channel.
WaitingInRecv == pc = "recv" /\ RecvResult(incoming, inClosed) = "block"
WaitingInSend == (InOutputSend \/ InTerminalSend) /\ ChannelFull

C13_LockNotHeldWhileWaiting ==
    (WaitingInRecv \/ WaitingInSend) => gil # "session"

\* C14: in a session whose operator was created, the operator has been
\* destroyed under the lock by the time the terminal message is sent,
\* whichever way the session ended.
OperatorCreated == initOutcome = "ok"

C14_DestroyedBeforeTerminal ==
    (OperatorCreated /\ terminal # <<>>) =>
        operator \in {"destroyed", "destroyed_late"}

\* C15: an error inside the output callback (metadata that does not parse,
\* outgoing channel closed) comes back to the guest as an exception and
\* forwards no Output; the session is still inside on_event, with no result
\* set.  From there the guest either handles it and on_event goes on, or
\* on_event raises and the session ends with Error (or a panic unwinds).  An
\* Error result of a created session always comes from an on_event call that
\* raised or returned an invalid status, never from the callback itself.
C15_CallbackErrorIsLocal ==
    /\ [](Len(OutputsOf(sent)) = Len(SucceededCalls))
    /\ [](pc = "callback_failed" =>
              /\ calls # <<>>
              /\ ~Last(calls).ok
              /\ result = NoResult
              /\ operator = "live"
              /\ gil = "session"
              /\ Len(outcomes) = Len(dispatched) - 1)
    /\ []((OperatorCreated /\ result.kind = "Err") =>
              /\ outcomes # <<>>
              /\ Len(outcomes) = Len(dispatched)
              /\ Last(outcomes).kind \in {"raise", "return"}
              /\ ~IsContinue(Last(outcomes)))
    /\ [][(pc = "callback_failed" /\ pc' # pc) =>
              \/ /\ pc' = "call"
                 /\ UNCHANGED <<result, outcomes, sent, calls, operator>>
              \/ /\ pc' = "report"
                 /\ outcomes' = Append(outcomes, Raised)
                 /\ result' = ErrResult("guest exception")
              \/ /\ pc' = "report"
                 /\ outcomes' = Append(outcomes, Panicked)
                 /\ result' = PanicResult]_vars

C15_Witness ==
    /\ Len(calls) >= 1
    /\ ~calls[1].ok
    /\ calls[1].args.metadata = "None"
    /\ OutputsOf(sent) = <<>>
    /\ Len(outcomes) = 1
    /\ IsContinue(outcomes[1])
    /\ Len(dispatched) = 2
    /\ pc = "call"

\* C16: with a sibling operator thread in the same process, the session is
\* inside a guest invocation (import and construction, an on_event call with
\* its callbacks, the destruction) only while it holds the lock, hence never
\* while the sibling is inside one; the operator is created and destroyed,
\* and on_event entered, under the lock of the thread doing it.
SessionInGuest == pc \in {"init", "call", "send", "callback_failed", "drop"}
SiblingInGuest == gil = "sibling"

C16_OneGuestInvocation ==
    /\ [](SessionInGuest <=> gil = "session")
    /\ [](~(SessionInGuest /\ SiblingInGuest))
    /\ [][dispatched' # dispatched => gil' = "session"]_vars
    /\ [][(operator' # operator /\ operator' \in {"live", "destroyed"}) =>
              gil = "session"]_vars
    /\ [][(operator' # operator /\ operator' = "destroyed_late") =>
              gil' = "sibling"]_vars

C16_Witness ==
    /\ pc = "dispatch_gil"
    /\ SiblingInGuest
    /\ Len(dispatched) = 1
    /\ operator = "live"

\* C17: the events are dispatched in the order the upstream channel delivers
\* them (the i-th dispatch is the i-th event fed), none twice; an event is
\* taken from the channel only when every earlier on_event call has returned
\* Continue, so at most one event is received and not yet finished.
EventInFlight == pc \in {"dispatch_gil", "call", "send", "callback_failed"}

C17_InOrderOneAtATime ==
    /\ [](\A i \in 1..Len(dispatched) : dispatched[i] = i)
    /\ [](\A i \in 1..Len(outcomes) :
              i < Len(outcomes) => IsContinue(outcomes[i]))
    /\ [](ReceivedCount = Len(outcomes) + (IF EventInFlight THEN 1 ELSE 0))
    /\ [](EventInFlight =>
              /\ event = ReceivedCount
              /\ AllContinue
              /\ Len(dispatched) = Len(outcomes)
                                   + (IF pc = "dispatch_gil" THEN 0 ELSE 1))
    /\ [](~EventInFlight => Len(dispatched) = Len(outcomes))
    /\ [][ReceivedCount' # ReceivedCount =>
              /\ pc = "recv"
              /\ ReceivedCount' = ReceivedCount + 1
              /\ event' = Head(incoming)
              /\ AllContinue
              /\ Len(outcomes) = ReceivedCount]_vars

C17_Witness ==
    /\ pc = "call"
    /\ dispatched = <<1, 2, 3>>
    /\ Len(outcomes) = 2
    /\ AllContinue

\* C19: the session does not hold the lock while it is in the upstream
\* receive, nor once it has ended (terminal send pending or done, run
\* returned), whether the last guest call returned, raised or panicked.
InUpstreamRecv == pc = "recv"
SessionEnded   == pc \in {"report", "returned"}

C19_LockReleasedOnExit ==
    (InUpstreamRecv \/ SessionEnded) => gil # "session"

C19_Witness ==
    /\ pc = "report"
    /\ outcomes # <<>>
    /\ Last(outcomes).kind = "panic"
    /\ Len(calls) = 1
    /\ gil = "free"

\* C18: once initialization has succeeded, and given that every guest call
\* ends, the host keeps draining the outgoing channel and the upstream
\* channel is closed after finitely many events, the session makes its
\* terminal send and run returns Ok.
C18_SessionTerminates ==
    (initOutcome = "ok") ~>
        (pc = "returned" /\ runResult = "Ok" /\ Len(terminal) = 1)

C18_Witness ==
    /\ initOutcome = "ok"
    /\ pc = "returned"
    /\ runResult = "Ok"
    /\ inClosed
    /\ fed = 3
    /\ Len(dispatched) = 3
    /\ Len(calls) = 2
    /\ drained = Len(sent)
    /\ terminal = <<Finished("InputsClosed")>>

====
